---- MODULE Spec2Model ----
(***************************************************************************)
(* chlorate: the SodaBuilder / SodaClient wrapper of src/lib.rs around the *)
(* native SODA engine (CreateExtendedSodaAsync, ExtendedSodaStart,         *)
(* ExtendedAddAudio, DeleteExtendedSodaAsync) and the soda_callback        *)
(* trampoline the engine calls from its own threads.                       *)
(*                                                                         *)
(* One caller thread builds clients, feeds them audio and drops them; the  *)
(* engine's threads run soda_callback concurrently.  Every call that       *)
(* crosses the foreign boundary is recorded per handle in ffi.             *)
(***************************************************************************)
EXTENDS Integers, Sequences, FiniteSets, TLC

\* ---------------------------------------------------------------- bounds
MaxClients == 2          \* build calls in one run
MaxFeeds == 1            \* add_audio / add_simulated_audio calls in one run
MaxEvents == 2           \* events the engine emits in one run
MaxChunks == 2           \* longest source, in whole chunks
MaxOps == 3              \* build, setter and feed calls and events together

\* ------------------------------------------------------ program constants
NULL == 0                \* the null handle
ChunkSize == 2048        \* vec![0; 2048]
SleepMs == 20            \* Duration::from_millis(20)

\* ----------------------------------------------------------------- sets
Clients == 1 .. MaxClients
Handles == 1 .. MaxClients                \* non-null handles the engine hands out
Addrs == 1 .. MaxClients                  \* heap addresses of boxed closures
Threads == {1}                            \* engine threads running the trampoline
Err == -1                                 \* a read that returned Err(_)

VARIABLES
    builder,     \* the SodaBuilder's fields
    heap,        \* heap[a]: state of the allocation a boxed closure lives in
    client,      \* client[c]: the SodaClient returned by the c-th build
    boxed,       \* boxed[c]: address of the closure the c-th build boxed
    engine,      \* engine[h]: the engine instance behind handle h
    ffi,         \* ffi[h]: the foreign calls issued with handle h, in order
    pc,          \* where the caller thread is
    feed,        \* the running (or last finished) add_chunked_audio call
    twin,        \* the same call on the same reads in the other pacing mode
    nfeeds,      \* add_chunked_audio calls so far
    tramp,       \* tramp[t]: the soda_callback invocation engine thread t is in
    calls,       \* calls[a]: how often the closure boxed at a was invoked
    delivered,   \* <<h, a>>: an event of instance h reached the closure at a
    emitted,     \* events emitted so far
    lastSet,     \* lastSet[f]: the argument of the latest call of f's setter
    nsets,       \* setter calls so far
    lastCall,    \* the builder method called last
    sent,        \* sent[c]: the encoded configuration the c-th build passed on
    paced        \* live clients an add_simulated_audio call fed a whole source

vars == <<builder, heap, client, boxed, engine, ffi, pc, feed, twin, nfeeds,
          tramp, calls, delivered, emitted, lastSet, nsets, lastCall, sent, paced>>

\* -------------------------------------------------------------- helpers
Min(a, b) == IF a < b THEN a ELSE b

Count(s, op) == Cardinality({i \in 1 .. Len(s) : s[i].op = op})

FfiCall(op) == [op |-> op]

\* No add_chunked_audio call yet; an engine thread outside the trampoline.
NoFeed == [st |-> "none", c |-> 0, L |-> 0, pos |-> 0, sim |-> FALSE,
           pushes |-> <<>>, sleeps |-> 0, reads |-> 0, end |-> "none",
           base |-> 0, offs |-> <<>>, failed |-> FALSE]
Idle == [st |-> "idle", h |-> NULL, message |-> <<>>, length |-> 0,
         callback |-> NULL, buf |-> <<>>, sr |-> FALSE]

\* ------------------------------------------------------------ SodaBuilder
\* A u32 is kept as its two 16-bit halves, so that all of 0 .. 2^32 - 1 is
\* there: U32(n) is the u32 of a number n below 2^31.
Half == 2 ^ 16

U32(n) == [hi |-> n \div Half, lo |-> n % Half]

\* A default() with another sample rate.
DefaultBuilderOther ==
    [channel_count |-> U32(1), sample_rate |-> U32(44100), max_buffer_bytes |-> U32(0),
     simulate_realtime_test_only |-> FALSE, recognition_mode |-> "Ime",
     reset_on_final_result |-> TRUE, include_timing_metrics |-> TRUE,
     enable_lang_id |-> FALSE, language_pack_directory |-> "./SODAModels",
     api_key |-> "dummy_key"]

DefaultBuilder ==
    [channel_count |-> U32(1), sample_rate |-> U32(16000), max_buffer_bytes |-> U32(0),
     simulate_realtime_test_only |-> FALSE, recognition_mode |-> "Ime",
     reset_on_final_result |-> TRUE, include_timing_metrics |-> TRUE,
     enable_lang_id |-> FALSE, language_pack_directory |-> "./SODAModels",
     api_key |-> "dummy_key"]

\* ------------------------------------------------------------ SodaBuilder
\* Option<T>: None, or Some(v).
None == <<>>

Some(v) == <<v>>

Fields == DOMAIN DefaultBuilder

U32Fields == {"channel_count", "sample_rate", "max_buffer_bytes"}

BoolFields == {"simulate_realtime_test_only", "reset_on_final_result",
               "include_timing_metrics", "enable_lang_id"}

\* The u32 arguments tried: 2, i32::MAX, i32::MAX + 1 and u32::MAX.
U32Vals == {U32(2), [hi |-> Half \div 2 - 1, lo |-> Half - 1],
            [hi |-> Half \div 2, lo |-> 0], [hi |-> Half - 1, lo |-> Half - 1]}

\* The arguments tried for the setter of field f.
Args(f) ==
    CASE f \in U32Fields -> U32Vals
      [] f \in BoolFields -> BOOLEAN
      [] f = "recognition_mode" -> {"Ime", "Caption"}
      [] f = "language_pack_directory" -> {"./SODAModels", "model"}
      [] f = "api_key" -> {"dummy_key", "key"}

channel_count(self, v) == [self EXCEPT !.channel_count = v]

sample_rate(self, v) == [self EXCEPT !.sample_rate = v]

max_buffer_bytes(self, v) == [self EXCEPT !.max_buffer_bytes = v]

simulate_realtime_testonly(self, v) == [self EXCEPT !.simulate_realtime_test_only = v]

language_pack_directory(self, v) == [self EXCEPT !.language_pack_directory = v]

api_key(self, v) == [self EXCEPT !.api_key = v]

recognition_mode(self, v) == [self EXCEPT !.recognition_mode = v]

reset_on_final_result(self, v) == [self EXCEPT !.reset_on_final_result = v]

include_timing_metrics(self, v) == [self EXCEPT !.include_timing_metrics = v]

enable_lang_id(self, v) == [self EXCEPT !.enable_lang_id = v]

\* The setter of field f, called with v.
Call(f, self, v) ==
    CASE f = "channel_count" -> channel_count(self, v)
      [] f = "sample_rate" -> sample_rate(self, v)
      [] f = "max_buffer_bytes" -> max_buffer_bytes(self, v)
      [] f = "simulate_realtime_test_only" -> simulate_realtime_testonly(self, v)
      [] f = "language_pack_directory" -> language_pack_directory(self, v)
      [] f = "api_key" -> api_key(self, v)
      [] f = "recognition_mode" -> recognition_mode(self, v)
      [] f = "reset_on_final_result" -> reset_on_final_result(self, v)
      [] f = "include_timing_metrics" -> include_timing_metrics(self, v)
      [] f = "enable_lang_id" -> enable_lang_id(self, v)

\* `x as i32` for a u32 x: the same 32 bits read as two's complement.
AsI32(x) == (IF x.hi >= Half \div 2 THEN x.hi - Half ELSE x.hi) * Half + x.lo

\* The SerializedSodaConfigMsg build fills in: ten fields Some(..), the others
\* (..Default::default()) None.  A RecognitionMode stands for its discriminant.
Config(self) ==
    [channel_count |-> Some(AsI32(self.channel_count)),
     sample_rate |-> Some(AsI32(self.sample_rate)),
     max_buffer_bytes |-> Some(AsI32(self.max_buffer_bytes)),
     simulate_realtime_testonly |-> Some(self.simulate_realtime_test_only),
     api_key |-> Some(self.api_key),
     language_pack_directory |-> Some(self.language_pack_directory),
     recognition_mode |-> Some(self.recognition_mode),
     reset_on_final_result |-> Some(self.reset_on_final_result),
     include_timing_metrics |-> Some(self.include_timing_metrics),
     enable_lang_id |-> Some(self.enable_lang_id)]

\* The fields of the message in the order build lists them.
FieldOrder ==
    <<"channel_count", "sample_rate", "max_buffer_bytes",
      "simulate_realtime_testonly", "api_key", "language_pack_directory",
      "recognition_mode", "reset_on_final_result", "include_timing_metrics",
      "enable_lang_id">>

\* config.encode(&mut buf): one <<field, value>> entry per field that is
\* Some(..), a field that is None leaves nothing in the buffer.
Encode(msg) ==
    LET present == SelectSeq(FieldOrder, LAMBDA f : msg[f] # None)
    IN  [i \in 1 .. Len(present) |-> <<present[i], msg[present[i]][1]>>]

\* The value an encoded configuration holds for a field.
FieldOf(buf, f) ==
    LET i == CHOOSE k \in 1 .. Len(buf) : buf[k][1] = f
    IN  buf[i][2]

\* The message field build fills from a builder field.
ConfigName(f) ==
    IF f = "simulate_realtime_test_only" THEN "simulate_realtime_testonly" ELSE f

\* A build that hands the builder back reset to its defaults.
BuildSelfReset(self) == DefaultBuilder

\* build takes &mut self and assigns to none of its fields.
BuildSelf(self) == self

\* Calls of build, calls of add_audio / add_simulated_audio and events so far.
Ops == Cardinality({c \in Clients : client[c].st # "none"}) + nfeeds + emitted + nsets

\* ------------------------------------------------------------- the engine
\* What CreateExtendedSodaAsync can return for the n-th instance: a fresh
\* handle, or null when the instance could not be created.
CreateExtendedSodaAsync(n) == {NULL, n}

NoInstance == [st |-> "none", callback_handle |-> NULL]

\* The engine's instance after a call on it.
EngineAfter(inst, call) ==
    CASE call.op = "start" /\ inst.st = "created" -> [inst EXCEPT !.st = "started"]
      [] call.op = "destroy" /\ inst.st \in {"created", "started"} ->
             [inst EXCEPT !.st = "destroyed"]
      [] OTHER -> inst

RECURSIVE EngineAfterAll(_, _)
EngineAfterAll(inst, cs) ==
    IF cs = <<>> THEN inst
    ELSE EngineAfterAll(EngineAfter(inst, Head(cs)), Tail(cs))

\* -------------------------------------------------------- SodaBuilder::build
\* build without its ExtendedSodaStart call.
BuildStartCallsNone(h) == <<>>

\* The calls build issues on the handle the create call returned.
BuildStartCalls(h) == <<FfiCall("start")>>

\* Box::new(Box::new(callback)): the address of the new allocation, one that
\* is not live.  Addresses are interchangeable: the lowest stands for any.
BoxNew(hp) ==
    LET free == {a \in Addrs : hp[a] # "live"}
    IN  {a \in free : \A b \in free : a <= b}

\* callback_handle: Box::into_raw(callback) hands the box's address out and
\* leaves the allocation live.
IntoRaw(a) == a

Build(c, a, h) ==
    /\ pc = "idle"
    /\ Ops < MaxOps
    /\ client[c].st = "none"
    /\ \A d \in Clients : d < c => client[d].st # "none"
    /\ a \in BoxNew(heap)
    /\ h \in CreateExtendedSodaAsync(c)
    /\ heap' = [heap EXCEPT ![a] = "live"]
    /\ boxed' = [boxed EXCEPT ![c] = a]
    /\ ffi' = [ffi EXCEPT ![h] = @ \o <<FfiCall("create")>> \o BuildStartCalls(h)]
    /\ engine' = IF h = NULL THEN engine
                 ELSE [engine EXCEPT ![h] =
                          EngineAfterAll([st |-> "created", callback_handle |-> IntoRaw(a)],
                                         BuildStartCalls(h))]
    /\ client' = [client EXCEPT ![c] = [st |-> "alive", soda_handle |-> h]]
    /\ builder' = BuildSelf(builder)
    /\ sent' = [sent EXCEPT ![c] = Encode(Config(builder))]
    /\ lastCall' = "build"
    /\ UNCHANGED <<lastSet, nsets, paced, pc, feed, twin, nfeeds, tramp, calls,
                   delivered, emitted>>

\* ------------------------------------------ SodaClient::add_chunked_audio
\* The size tried for a read that does not fill the chunk: half of it.
ShortRead == ChunkSize \div 2

\* The source lengths tried: empty, shorter than a chunk, and whole chunks.
SourceLens == {k * ChunkSize : k \in 0 .. MaxChunks} \cup {ShortRead}

\* What data.read(&mut chunk) can return with `remaining` bytes left in the
\* source: Ok(0) only at the end, else Ok(n) for any 1 <= n <= min(remaining,
\* 2048) (the sizes tried: all that fits, or ShortRead), or Err(_).
Read(remaining) ==
    LET most == Min(remaining, ChunkSize)
    IN  {most} \cup {n \in {ShortRead} : n < most} \cup {Err}

\* The loop without its end-of-stream test.
IsBreakNever(len) == FALSE

\* `if len == 0 { break; }`
IsBreak(len) == len = 0

\* A push of the whole chunk buffer, whatever the read returned.
PushedLenWhole(len) == ChunkSize

\* `(&chunk[..len]).as_ptr(), len as c_int`: the length of the pushed chunk.
PushedLen(len) == len

\* A pacing delay in both modes.
SleepsAlways(simulate_real_time) == 1

\* `if simulate_real_time { sleep(20ms) }`: pacing delays after one push.
Sleeps(simulate_real_time) == IF simulate_real_time THEN 1 ELSE 0

\* A client that could still be used after its drop.
CanUseAny(st) == st # "none"

\* add_audio and add_simulated_audio take `&mut self`: the client is owned by
\* the caller and has not been dropped.
CanUse(st) == st = "alive"

\* Err(_) taken for a read of some length.
IsOkAlways(r) == TRUE

\* `while let Ok(len) = data.read(&mut chunk)`
IsOk(r) == r # Err

\* add_audio (sim = FALSE) or add_simulated_audio (sim = TRUE) is called on
\* client c with a source of L bytes.
AddAudio(c, L, sim) ==
    /\ pc = "idle"
    /\ CanUse(client[c].st)
    /\ nfeeds < MaxFeeds
    /\ Ops < MaxOps
    /\ pc' = "feeding"
    /\ nfeeds' = nfeeds + 1
    /\ feed' = [NoFeed EXCEPT !.st = "active", !.c = c, !.L = L, !.sim = sim,
                              !.base = Len(ffi[client[c].soda_handle])]
    /\ twin' = [feed' EXCEPT !.sim = ~sim]
    /\ UNCHANGED <<builder, lastSet, nsets, lastCall, sent, paced,
                   heap, client, boxed, engine, ffi, tramp, calls,
                   delivered, emitted>>

\* One turn of `while let Ok(len) = data.read(&mut chunk)` of the call f, the
\* read returning r: the loop ends on Err(_) and on Ok(0), else the chunk read
\* at the source's position is pushed and, when pacing, the thread sleeps.
Turn(f, r) ==
    IF ~IsOk(r) \/ IsBreak(r)
    THEN [f EXCEPT !.st = "done", !.reads = @ + 1, !.failed = (r = Err),
                   !.end = IF r = Err THEN "err" ELSE "eof"]
    ELSE [f EXCEPT !.reads = @ + 1, !.pos = @ + r, !.failed = (r = Err),
                   !.pushes = Append(@, PushedLen(r)),
                   !.offs = Append(@, f.pos),
                   !.sleeps = @ + Sleeps(f.sim)]

FeedTurn(r) ==
    /\ feed' = Turn(feed, r)
    /\ twin' = Turn(twin, r)
    /\ IF feed'.st = "done"
       THEN /\ pc' = "fed"
            /\ ffi' = ffi
       ELSE /\ pc' = pc
            /\ ffi' = [ffi EXCEPT ![client[feed.c].soda_handle] =
                          Append(@, FfiCall("push"))]
    /\ UNCHANGED <<builder, lastSet, nsets, lastCall, sent, paced,
                   heap, client, boxed, engine, nfeeds, tramp, calls,
                   delivered, emitted>>

FeedStep ==
    /\ pc = "feeding"
    /\ \E r \in Read(feed.L - feed.pos) : FeedTurn(r)

\* add_chunked_audio returns to its caller.
AddAudioReturn ==
    /\ pc = "fed"
    /\ pc' = "idle"
    /\ feed' = NoFeed
    /\ twin' = NoFeed
    /\ paced' = IF feed.sim /\ feed.end = "eof" THEN paced \cup {feed.c} ELSE paced
    /\ UNCHANGED <<builder, lastSet, nsets, lastCall, sent,
                   heap, client, boxed, engine, ffi, nfeeds, tramp, calls,
                   delivered, emitted>>

\* ------------------------------------------------ impl Drop for SodaClient
\* drop without its DeleteExtendedSodaAsync call.
DropCallsNone(h) == <<>>

\* The calls drop issues on the client's handle.
DropCalls(h) == <<FfiCall("destroy")>>

\* What drop does to the heap: nothing, the box handed out by into_raw is
\* never rebuilt.
DropHeap(hp, a) == hp

\* drop(&mut self) calls DeleteExtendedSodaAsync(self.soda_handle).
DropCall(c) ==
    /\ pc = "idle"
    /\ client[c].st = "alive"
    /\ LET h == client[c].soda_handle
       IN  /\ ffi' = [ffi EXCEPT ![h] = @ \o DropCalls(h)]
           /\ engine' = IF h = NULL THEN engine
                        ELSE [engine EXCEPT ![h] = EngineAfterAll(@, DropCalls(h))]
    /\ heap' = DropHeap(heap, boxed[c])
    /\ client' = [client EXCEPT ![c].st = "dropping"]
    /\ pc' = "dropping"
    /\ paced' = paced \ {c}
    /\ UNCHANGED <<builder, lastSet, nsets, lastCall, sent,
                   boxed, feed, twin, nfeeds, tramp, calls, delivered, emitted>>

\* DeleteExtendedSodaAsync returns, and drop returns.  Nothing in drop waits
\* for the engine's threads: an engine that quiesces returns only when none of
\* them is inside the trampoline for this instance, another one returns at once.
DropReturn(c) ==
    /\ pc = "dropping"
    /\ client[c].st = "dropping"
    /\ client' = [client EXCEPT ![c].st = "dropped"]
    /\ pc' = "idle"
    /\ UNCHANGED <<builder, lastSet, nsets, lastCall, sent, paced,
                   heap, boxed, engine, ffi, feed, twin, nfeeds, tramp, calls,
                   delivered, emitted>>

\* ----------------------------------------------------------- soda_callback
\* The event payloads tried: the empty record, field 1 as a varint (8) with
\* value 0 or 8, field 1 as an empty length-delimited value (10, 0), a key
\* without its value, and a payload that starts with the invalid key 0.
Payloads == {<<>>, <<8, 0>>, <<8, 8>>, <<10, 0>>, <<8>>, <<0>>}

\* The bytes in memory after the payload: anything, up to a zero byte.
Tails == {<<0>>, <<8, 0>>}

HasNul(s) == \E i \in 1 .. Len(s) : s[i] = 0

\* CStr::from_ptr(message).to_bytes(): the bytes before the first zero byte.
CStrBytes(mem) ==
    LET n == CHOOSE i \in 1 .. Len(mem) :
                 mem[i] = 0 /\ \A j \in 1 .. (i - 1) : mem[j] # 0
    IN  SubSeq(mem, 1, n - 1)

\* The bytes soda_callback hands to SodaResponse::decode; _length is unused.
DecodeInput(message, length) == CStrBytes(message)

\* SodaResponse::decode succeeds on a well-formed sequence of fields: each a
\* key byte (field number * 8 + wire type, field number 0 invalid) and a value
\* of the wire type (0: a varint, 1: eight bytes, 2: a length and that many
\* bytes, 5: four bytes).  All bytes of Payloads are one-byte varints.
RECURSIVE Decodes(_)
Decodes(b) ==
    IF b = <<>> THEN TRUE
    ELSE LET key == b[1]
             wt == key % 8
             rest == Tail(b)
             skip == CASE wt = 0 -> 1
                       [] wt = 1 -> 8
                       [] wt = 2 -> IF rest = <<>> THEN 1 ELSE 1 + rest[1]
                       [] wt = 5 -> 4
                       [] OTHER -> 0
         IN  /\ key \div 8 # 0
             /\ wt \in {0, 1, 2, 5}
             /\ Len(rest) >= skip
             /\ Decodes(SubSeq(rest, skip + 1, Len(rest)))

\* A trampoline that invokes one process-wide closure, whatever its user-data
\* argument.
UserCallbackGlobal(callback) == 1

\* `let user_callback: *mut Box<SodaCBFn> = callback as *mut _`
UserCallback(callback) == callback

\* A trampoline that takes the box back (Box::from_raw) and so frees it on return.
CallbackHeapFrees(hp, a) == [hp EXCEPT ![a] = "freed"]

\* What soda_callback does to the heap: nothing, `&*user_callback` only borrows
\* the closure behind the user-data pointer.
CallbackHeap(hp, a) == hp

\* An engine thread calls soda_callback(message, length, callback_handle) for
\* an event of instance h, at any time after the start call: the wrapper
\* cannot tell whether the engine stops doing so at the destroy call.  What follows the payload in memory matters only
\* when the payload holds no zero byte.
EngineEmit(t, h, payload, tail) ==
    /\ pc # "aborted"
    /\ tramp[t].st = "idle"
    /\ emitted < MaxEvents
    /\ Ops < MaxOps
    /\ HasNul(payload) => tail = <<0>>
    /\ engine[h].st \in {"started", "destroyed"}
    /\ emitted' = emitted + 1
    /\ tramp' = [tramp EXCEPT ![t] =
                    [Idle EXCEPT !.st = "running", !.h = h,
                                 !.message = payload \o tail,
                                 !.length = Len(payload),
                                 !.callback = engine[h].callback_handle]]
    /\ UNCHANGED <<builder, lastSet, nsets, lastCall, sent, paced,
                   heap, client, boxed, engine, ffi, pc, feed, twin, nfeeds,
                   calls, delivered>>

\* soda_callback, first half: `buf` is taken from the message and decoded.
SodaCallbackDecode(t) ==
    /\ pc # "aborted"
    /\ tramp[t].st = "running"
    /\ LET buf == DecodeInput(tramp[t].message, tramp[t].length)
       IN  tramp' = [tramp EXCEPT ![t].st = "decoded", ![t].buf = buf,
                                  ![t].sr = Decodes(buf)]
    /\ UNCHANGED <<builder, lastSet, nsets, lastCall, sent, paced,
                   heap, client, boxed, engine, ffi, pc, feed, twin, nfeeds,
                   calls, delivered, emitted>>

\* soda_callback, second half: on Ok(sr) the closure behind the user-data
\* pointer is invoked; then the trampoline returns.
SodaCallbackInvoke(t) ==
    /\ pc # "aborted"
    /\ tramp[t].st = "decoded"
    /\ LET a == UserCallback(tramp[t].callback)
       IN  /\ calls' = IF tramp[t].sr THEN [calls EXCEPT ![a] = @ + 1] ELSE calls
           /\ delivered' = IF tramp[t].sr THEN delivered \cup {<<tramp[t].h, a>>}
                           ELSE delivered
    /\ heap' = CallbackHeap(heap, tramp[t].callback)
    /\ tramp' = [tramp EXCEPT ![t] = Idle]
    /\ UNCHANGED <<builder, lastSet, nsets, lastCall, sent, paced,
                   client, boxed, engine, ffi, pc, feed, twin, nfeeds,
                   emitted>>

\* CStr::from_ptr reads past a payload that holds no zero byte: the read can
\* also leave the mapped memory and end the process.
SodaCallbackFault(t) ==
    /\ pc # "aborted"
    /\ tramp[t].st = "running"
    /\ ~HasNul(SubSeq(tramp[t].message, 1, tramp[t].length))
    /\ pc' = "aborted"
    /\ UNCHANGED <<builder, lastSet, nsets, lastCall, sent, paced,
                   heap, client, boxed, engine, ffi, feed, twin, nfeeds,
                   tramp, calls, delivered, emitted>>

\* ------------------------------------------------------- builder setters
\* One of the ten setters is called with v: `self.f = v; self`.
Setter(f, v) ==
    /\ pc = "idle"
    /\ Ops < MaxOps
    /\ builder' = Call(f, builder, v)
    /\ lastSet' = [lastSet EXCEPT ![f] = Some(v)]
    /\ nsets' = nsets + 1
    /\ lastCall' = "setter"
    /\ UNCHANGED <<sent, paced, heap, client, boxed, engine, ffi, pc, feed, twin,
                   nfeeds, tramp, calls, delivered, emitted>>

\* ----------------------------------------------------------------- Init

Init ==
    /\ builder = DefaultBuilder
    /\ heap = [a \in Addrs |-> "unalloc"]
    /\ client = [c \in Clients |-> [st |-> "none", soda_handle |-> NULL]]
    /\ boxed = [c \in Clients |-> NULL]
    /\ engine = [h \in Handles |-> NoInstance]
    /\ ffi = [h \in Handles \cup {NULL} |-> <<>>]
    /\ pc = "idle"
    /\ feed = NoFeed
    /\ twin = NoFeed
    /\ nfeeds = 0
    /\ tramp = [t \in Threads |-> Idle]
    /\ calls = [a \in Addrs |-> 0]
    /\ delivered = {}
    /\ emitted = 0
    /\ lastSet = [f \in Fields |-> None]
    /\ nsets = 0
    /\ lastCall = "new"
    /\ sent = [c \in Clients |-> <<>>]
    /\ paced = {}

Next ==
    \/ \E c \in Clients, a \in Addrs, h \in Handles \cup {NULL} : Build(c, a, h)
    \/ \E c \in Clients, L \in SourceLens, sim \in BOOLEAN : AddAudio(c, L, sim)
    \/ FeedStep
    \/ AddAudioReturn
    \/ \E c \in Clients : DropCall(c)
    \/ \E c \in Clients : DropReturn(c)
    \/ \E t \in Threads, h \in Handles, p \in Payloads, tl \in Tails :
           EngineEmit(t, h, p, tl)
    \/ \E t \in Threads : SodaCallbackDecode(t)
    \/ \E t \in Threads : SodaCallbackInvoke(t)
    \/ \E t \in Threads : SodaCallbackFault(t)

TypeOK ==
    /\ heap \in [Addrs -> {"unalloc", "live", "freed"}]
    /\ pc \in {"idle", "feeding", "fed", "dropping", "aborted"}
    /\ \A c \in Clients : client[c].st \in {"none", "alive", "dropping", "dropped"}
    /\ \A h \in Handles : engine[h].st \in {"none", "created", "started", "destroyed"}
    /\ emitted \in 0 .. MaxEvents
    /\ nfeeds \in 0 .. MaxFeeds
    /\ nsets \in 0 .. MaxOps
    /\ lastCall \in {"new", "setter", "build"}
    /\ paced \subseteq Clients
    /\ \A f \in Fields : lastSet[f] = None \/ lastSet[f][1] \in Args(f)

Spec == Init /\ [][Next]_vars

\* The builder on its own: setter calls and build calls in any order.
NextBuilder ==
    \/ \E f \in Fields : \E v \in Args(f) : Setter(f, v)
    \/ \E c \in Clients, a \in Addrs, h \in Handles \cup {NULL} : Build(c, a, h)

SpecBuilder == Init /\ [][NextBuilder]_vars

\* ------------------------------------------------------------------ claims
Built(c) == client[c].st # "none"
Dropped(c) == client[c].st = "dropped"
Owners(h) == {c \in Clients : Built(c) /\ client[c].soda_handle = h}
Payload(t) == SubSeq(tramp[t].message, 1, tramp[t].length)
Returns(t) == tramp[t].st # "idle" /\ tramp'[t].st = "idle"

\* C1: once the drop of a client has returned, the closure given to its build
\* is never invoked again, whenever the engine runs the trampoline.
C1_NoCallAfterDrop ==
    [][\A c \in Clients : Dropped(c) => calls'[boxed[c]] = calls[boxed[c]]]_vars

\* C2: for every handle the create call returned, the destroy call is issued
\* exactly once: not before the owning client is dropped, once from then on,
\* never twice; and no two clients own the same non-null handle.
C2_DestroyExactlyOnce ==
    /\ \A h \in Handles : Cardinality(Owners(h)) <= 1
    /\ \A h \in Handles \cup {NULL} :
           Count(ffi[h], "destroy") =
               Cardinality({c \in Owners(h) : client[c].st \in {"dropping", "dropped"}})

C2_Witness ==
    \E c \in Clients :
        /\ Dropped(c)
        /\ client[c].soda_handle # NULL
        /\ Count(ffi[client[c].soda_handle], "destroy") = 1

\* C3: after drop has returned, the boxed closure handed to the engine as
\* user-data has been freed.
C3_ClosureFreedByDrop ==
    \A c \in Clients : Dropped(c) => heap[boxed[c]] = "freed"

\* C4: when the create call returns the null handle, build fails: it issues no
\* start call on the null handle and returns no client holding it (so no later
\* push or destroy call gets the null handle).
C4_NullHandleIsFatal ==
    /\ \A c \in Clients : Built(c) => client[c].soda_handle # NULL
    /\ \A i \in 1 .. Len(ffi[NULL]) : ffi[NULL][i].op = "create"

\* C5: the start call is issued exactly once per create call, right after the
\* create call returned and so before any push call on the handle.
C5_StartOnceBeforePush ==
    \A h \in Handles \cup {NULL} :
        /\ h # NULL => Count(ffi[h], "create") <= 1
        /\ Count(ffi[h], "start") = Count(ffi[h], "create")
        /\ \A i \in 1 .. Len(ffi[h]) :
               /\ ffi[h][i].op = "start" => i > 1 /\ ffi[h][i - 1].op = "create"
               /\ ffi[h][i].op = "push" =>
                      \E j \in 1 .. (i - 1) : ffi[h][j].op = "start"

C5_Witness ==
    \E h \in Handles :
        /\ Len(ffi[h]) >= 3
        /\ ffi[h][1].op = "create"
        /\ ffi[h][2].op = "start"
        /\ ffi[h][3].op = "push"

\* C6: a source whose length is a positive multiple of 2048, fed to its end,
\* gives exactly length / 2048 push calls, each of 2048 bytes, whatever sizes
\* the reads return.
C6_WholeChunksOnly ==
    (feed.st = "done" /\ feed.end = "eof" /\ feed.L > 0 /\ feed.L % ChunkSize = 0)
        => /\ Len(feed.pushes) = feed.L \div ChunkSize
           /\ \A i \in 1 .. Len(feed.pushes) : feed.pushes[i] = ChunkSize

\* C7: feeding an empty source (its first read returns 0) issues no push call,
\* makes no pacing delay, and ends the call after that one read.
C7_EmptySource ==
    (feed.st # "none" /\ feed.L = 0 /\ feed.end # "err")
        => /\ feed.pushes = <<>>
           /\ feed.sleeps = 0
           /\ Len(ffi[client[feed.c].soda_handle]) = feed.base
           /\ feed.reads <= 1
           /\ feed.reads = 1 => feed.st = "done"

C7_Witness ==
    /\ feed.st = "done"
    /\ feed.L = 0
    /\ feed.end = "eof"
    /\ feed.reads = 1
    /\ pc = "fed"

\* C8: a trampoline invocation invokes the closure exactly once if its payload
\* decodes as a SodaResponse and not at all if it does not.
C8_InvokedIffPayloadDecodes ==
    [][\A t \in Threads :
          Returns(t) =>
              calls'[tramp[t].callback] - calls[tramp[t].callback] =
                  (IF Decodes(Payload(t)) THEN 1 ELSE 0)]_vars

\* C9: the bytes the trampoline hands to the decoder are exactly the first
\* payload_len bytes of the payload.
C9_DecodesLengthBounded ==
    \A t \in Threads : tramp[t].st = "decoded" => tramp[t].buf = Payload(t)

\* C10: two clients never share a user-data pointer, and an event of one
\* client's instance reaches only the closure that client's build boxed.
C10_EventsStayWithTheirClient ==
    /\ \A c, d \in Clients : (Built(c) /\ Built(d) /\ c # d) => boxed[c] # boxed[d]
    /\ \A h \in Handles : \A c \in Owners(h) : engine[h].callback_handle = boxed[c]
    /\ \A e \in delivered : \E c \in Owners(e[1]) : boxed[c] = e[2]

C10_Witness ==
    /\ \A c \in {1, 2} : Built(c) /\ client[c].soda_handle # NULL
    /\ \E e \in delivered : e[1] = client[2].soda_handle /\ e[2] = boxed[2]
    /\ calls[boxed[1]] = 0

\* The paced and the immediate one of the two calls feed and twin.
Paced == IF feed.sim THEN feed ELSE twin
Immediate == IF feed.sim THEN twin ELSE feed
FeedHandle == client[feed.c].soda_handle

\* C14: a read that returns an error ends the feed loop at once: the call is
\* over as at end of stream, the chunks pushed before the failed read stay
\* pushed and no push call follows it.
C14_ReadErrorEndsFeed ==
    (feed.st # "none" /\ feed.failed)
        => /\ feed.st = "done"
           /\ feed.end = "err"
           /\ pc \in {"fed", "aborted"}
           /\ Len(feed.pushes) = feed.reads - 1
           /\ Len(ffi[FeedHandle]) = feed.base + Len(feed.pushes)

C14_Witness ==
    /\ feed.st = "done"
    /\ feed.failed
    /\ feed.reads = 2
    /\ Len(feed.pushes) = 1
    /\ pc = "fed"

\* C16: on a handle the engine handed out, no push call and no start call is
\* ever issued after the destroy call: every push lies between the start call
\* and the destroy call.
C16_NoUseAfterDestroy ==
    \A h \in Handles :
        \A i \in 1 .. Len(ffi[h]) :
            /\ ffi[h][i].op = "destroy" => i = Len(ffi[h])
            /\ ffi[h][i].op = "push" =>
                   /\ \E j \in 1 .. (i - 1) : ffi[h][j].op = "start"
                   /\ engine[h].st = "destroyed" => ffi[h][Len(ffi[h])].op = "destroy"

C16_Witness ==
    \E h \in Handles :
        /\ Len(ffi[h]) >= 4
        /\ ffi[h][3].op = "push"
        /\ ffi[h][Len(ffi[h])].op = "destroy"
        /\ \E c \in Clients : client[c].soda_handle = h /\ client[c].st = "dropped"

\* C17: the feed loop issues one push per non-empty read, in read order, each
\* carrying the 1 .. 2048 bytes that read returned: the pushed chunks are the
\* consecutive pieces of the source from its start up to the position read so
\* far, which is the whole source when the loop ends on a zero-length read.
C17_PushesAreTheSourceInOrder ==
    feed.st # "none" =>
        /\ Len(feed.offs) = Len(feed.pushes)
        /\ Len(feed.pushes) = feed.reads - (IF feed.st = "done" THEN 1 ELSE 0)
        /\ Len(ffi[FeedHandle]) = feed.base + Len(feed.pushes)
        /\ \A i \in 1 .. Len(feed.pushes) :
               /\ feed.pushes[i] \in 1 .. ChunkSize
               /\ feed.offs[i] = (IF i = 1 THEN 0 ELSE feed.offs[i - 1] + feed.pushes[i - 1])
               /\ ffi[FeedHandle][feed.base + i].op = "push"
        /\ feed.pos = (IF feed.pushes = <<>> THEN 0
                       ELSE feed.offs[Len(feed.offs)] + feed.pushes[Len(feed.pushes)])
        /\ feed.pos <= feed.L
        /\ (feed.st = "done" /\ feed.end = "eof") => feed.pos = feed.L

C17_Witness ==
    /\ feed.st = "done"
    /\ feed.end = "eof"
    /\ feed.L = 2 * ChunkSize
    /\ feed.pushes = <<ShortRead, ChunkSize, ShortRead>>
    /\ feed.offs = <<0, ShortRead, ShortRead + ChunkSize>>

\* C18 as claimed: both modes issue the same pushes, immediate mode never
\* sleeps, and paced mode sleeps 20 ms only between consecutive chunks.
C18_PacedSleepsBetweenChunks ==
    feed.st = "done" =>
        /\ Immediate.pushes = Paced.pushes /\ Immediate.offs = Paced.offs
        /\ Immediate.sleeps * SleepMs = 0
        /\ Paced.sleeps * SleepMs =
               (IF Paced.pushes = <<>> THEN 0 ELSE (Len(Paced.pushes) - 1) * SleepMs)

\* C18 as amended: on the same reads both modes issue the same pushes and end
\* alike, immediate mode never sleeps, and paced mode sleeps 20 ms after every
\* pushed chunk, the last one included.
C18_PacedSleepsAfterEveryChunk ==
    feed.st # "none" =>
        /\ Immediate.pushes = Paced.pushes /\ Immediate.offs = Paced.offs
        /\ Immediate.st = Paced.st /\ Immediate.end = Paced.end
        /\ Immediate.sleeps * SleepMs = 0
        /\ Paced.sleeps * SleepMs = Len(Paced.pushes) * SleepMs

C18_Witness ==
    /\ feed.st = "done"
    /\ feed.sim
    /\ Len(feed.pushes) = 2
    /\ feed.sleeps = 2
    /\ twin.sleeps = 0

C11_EventBeforeDestroy ==
    [][\A c \in Clients :
           (/\ c \in paced
            /\ client[c].soda_handle # NULL
            /\ client[c].st = "alive"
            /\ client'[c].st # "alive")
           => <<client[c].soda_handle, boxed[c]>> \in delivered]_vars

\* The step in which build returns client c.
Builds(c) == client[c].st = "none" /\ client'[c].st = "alive"

\* The step is a call of the setter of field f.
Sets(f) == nsets' = nsets + 1 /\ lastSet'[f] # lastSet[f]

\* The create calls issued so far.
Creates ==
    Count(ffi[NULL], "create")
        + Cardinality({h \in Handles : Count(ffi[h], "create") > 0})

\* The i32 n and the u32 x are the same number.
EqU32(n, x) == n >= 0 /\ n \div Half = x.hi /\ n % Half = x.lo

\* The configuration value n of field f is the builder value v.
SameValue(f, n, v) == IF f \in U32Fields THEN EqU32(n, v) ELSE n = v

\* The value the latest call of f's setter passed, or the field's default.
Latest(f) == IF lastSet[f] = None THEN DefaultBuilder[f] ELSE lastSet[f][1]

C13_DefaultsAreSent ==
    nsets = 0 =>
        \A c \in Clients : Built(c) =>
            sent[c] = << <<"channel_count", 1>>, <<"sample_rate", 16000>>,
                         <<"max_buffer_bytes", 0>>,
                         <<"simulate_realtime_testonly", FALSE>>,
                         <<"api_key", "dummy_key">>,
                         <<"language_pack_directory", "./SODAModels">>,
                         <<"recognition_mode", "Ime">>,
                         <<"reset_on_final_result", TRUE>>,
                         <<"include_timing_metrics", TRUE>>,
                         <<"enable_lang_id", FALSE>> >>

C13_Witness == nsets = 0 /\ Built(1) /\ Len(sent[1]) = Len(FieldOrder)

\* C19: a setter call changes its own field and no other field of the
\* builder, and the configuration a build sends holds, for each field, the
\* value the latest call of that field's setter passed, or the default when
\* the setter was never called.
C19_LatestSetterWins ==
    [][/\ \A f \in Fields : Sets(f) =>
              \A g \in Fields \ {f} : builder'[g] = builder[g]
       /\ \A c \in Clients : Builds(c) =>
              \A f \in Fields :
                  SameValue(f, FieldOf(sent'[c], ConfigName(f)), Latest(f))]_vars

\* C20: the channel_count, sample_rate and max_buffer_bytes a build sends
\* equal the u32 values passed to their setters, and are not negative.
C20_NoWrap ==
    [][\A c \in Clients : Builds(c) =>
           \A f \in U32Fields :
               lastSet[f] # None =>
                   /\ EqU32(FieldOf(sent'[c], f), lastSet[f][1])
                   /\ FieldOf(sent'[c], f) >= 0]_vars
====
